---- MODULE Spec2Model ----
(***************************************************************************)
(* Trace-driven set-associative cache simulator (Cache_Memory).            *)
(*                                                                         *)
(* Two builds of the same program are modelled:                            *)
(*   "touch" : IMT2023048_031_045_Code.cpp  (only the touched line gets a  *)
(*             new LRUcount)                                               *)
(*   "full"  : modified.cpp                 (every other valid line of the *)
(*             set is incremented as well)                                 *)
(* The variable `variant` says which build is running; it never changes.   *)
(*                                                                         *)
(* A behaviour of the model is one run of the process: main calls          *)
(* simulateCache some number of times; each call either is rejected        *)
(* (cacheLineNum == 0), fails to open its trace, or replays the trace      *)
(* record by record through CacheAccess and then writes one CSV row.       *)
(*                                                                         *)
(* Three specifications share the state and the CacheAccess operators:     *)
(*   Spec       : any sequence of simulateCache calls on small geometries, *)
(*                record by record;                                        *)
(*   DecodeSpec : one replay over wide geometries and 32-bit addresses,    *)
(*                for getIndex and getTag;                                 *)
(*   MainSpec   : main with its four sweeps, one step per simulateCache    *)
(*                call, with weak fairness of main's own steps.            *)
(***************************************************************************)
EXTENDS Integers, Sequences, FiniteSets, TLC

\* ------------------------------------------------------------------ bounds
\* simulateCache calls made by the driver in one behaviour.
MaxCalls == 2
\* Trace records read by the whole process in one behaviour.
MaxRecords == 5
\* Trace records replayed in one behaviour of DecodeSpec.
MaxDecode == 2

\* ------------------------------------------------------------- arithmetic
RECURSIVE Pow2(_)
Pow2(k) == IF k = 0 THEN 1 ELSE 2 * Pow2(k - 1)

\* TLC's integers are 32-bit signed, so a 32-bit value is kept as its bit
\* pattern read as a signed int: 0xFFFFFFFF is -1, and converting an int
\* to uint32_t keeps the pattern.  a < b on uint32_t, on two such patterns:
UnsignedLess(a, b) ==
    IF (a >= 0) = (b >= 0) THEN a < b ELSE a >= 0

\* numeric_limits<uint32_t>::max()
Uint32Max == -1

\* (uint32_t)log2(x) for x >= 1: the double result truncated, i.e. floor(log2 x).
RECURSIVE Log2(_)
Log2(x) == IF x <= 1 THEN 0 ELSE 1 + Log2(x \div 2)

\* a >> k on uint32_t, k < 32: a logical shift.  A pattern with bit 31 set
\* (a < 0) has that bit cleared, is shifted, and gets the bit back at 31 - k.
ShiftRight(a, k) ==
    IF k = 0 THEN a
    ELSE IF a >= 0 THEN (IF k = 31 THEN 0 ELSE a \div Pow2(k))
    ELSE IF k = 31 THEN 1
    ELSE ((a + 2147483647 + 1) \div Pow2(k)) + Pow2(31 - k)

\* a & b on non-negative operands, bit by bit.
RECURSIVE BitAnd(_, _)
BitAnd(a, b) ==
    IF a = 0 \/ b = 0 THEN 0
    ELSE (IF a % 2 = 1 /\ b % 2 = 1 THEN 1 ELSE 0) + 2 * BitAnd(a \div 2, b \div 2)

\* ------------------------------------------------------------ input sets
\* (cacheSize, blockSize, setAssociativity) triples the driver may pass.
\*   <<16,16,1>>  1 set,  1 way      <<48,16,1>>  3 sets, 1 way
\*   <<16, 8,2>>  1 set,  2 ways     <<64,16,2>>  2 sets, 2 ways
\*   <<15,16,1>>  0 sets         }  cacheSize = blockSize * associativity - 1
\*   <<15, 8,2>>  0 sets         }
Configs ==
    { <<16, 16, 1>>, <<48, 16, 1>>, <<16, 8, 2>>, <<64, 16, 2>>,
      <<15, 16, 1>>, <<15, 8, 2>> }

\* Addresses a trace record may carry (0x0, 0x10, 0x20).  They give three
\* tags in the single set of <<16,16,1>> and <<16,8,2>>, and reach both
\* index values of the two- and three-set geometries.
Addrs == {0, 16, 32}

\* Trace file names (the first of main's five; the name only reaches the
\* CSV row and the error message).
TraceFiles == {"gcc.trace"}

\* Geometries and addresses of DecodeSpec, which exercises getIndex and
\* getTag over the 32-bit range: block sizes 2^0, 2^4, 2^16, 2^27 and 1 to 8
\* sets (up to 30 offset and index bits together), one way.
DecodeBlockSizes == {1, 16, 65536, 134217728}
DecodeNumSets == 1 .. 8
DecodeConfigs ==
    { << g[1] * g[2], g[1], 1 >> : g \in DecodeBlockSizes \X DecodeNumSets }

\* Addresses of DecodeSpec, as bit patterns: 0x0, 0x5, 0x10, 0x1234,
\* 0x08000000, 0x7FFFFFFF, 0x80000000, 0xDEADBEEF, 0xFFFFFFFF.
DecodeAddrs ==
    { 0, 5, 16, 4660, 134217728, 2147483647, -2147483647 - 1, -559038737, -1 }

\* ------------------------------------------------------------ data model
\* CacheLine(): valid(false), tag(0), LRUcount(0)
CacheLine == [valid |-> FALSE, tag |-> 0, LRUcount |-> 0]

\* CacheMem / CacheSet (int associativity): lines(associativity)
CacheMem(associativity) == [i \in 0 .. associativity - 1 |-> CacheLine]

\* vector<CacheMem> cache(cacheLineNum, CacheMem(setAssociativity))
NewCache(cacheLineNum, setAssociativity) ==
    [s \in 0 .. cacheLineNum - 1 |-> CacheMem(setAssociativity)]

\* No cache vector exists outside a replay.
NoCache == << >>

\* --------------------------------------------------------- address decode
\* (mutant) the index is the block number modulo the number of sets.
getIndexModulo(address, blockSize, cacheLineNum) ==
    ShiftRight(address, Log2(blockSize)) % cacheLineNum

getIndex(address, blockSize, cacheLineNum) ==
    LET offsetBits == Log2(blockSize)
        indexBits  == Log2(cacheLineNum)
    IN  BitAnd(ShiftRight(address, offsetBits), Pow2(indexBits) - 1)

\* (mutant) the tag keeps the offset bits' worth of index bits.
getTagForgetsOffset(address, blockSize, cacheLineNum) ==
    ShiftRight(address, Log2(cacheLineNum))

getTag(address, blockSize, cacheLineNum) ==
    LET offsetBits == Log2(blockSize)
        indexBits  == Log2(cacheLineNum)
    IN  ShiftRight(address, offsetBits + indexBits)

\* ------------------------------------------------------------ CacheAccess
\* The hit loop: the first i in index order with a valid line whose tag
\* matches, or -1 when the loop runs to the end.
\* (mutant) the hit loop started at i + 1: the first way is never compared.
HitScanSkipsFirst(lines, tag, i, setAssociativity) ==
    LET found == { j \in i + 1 .. setAssociativity - 1 :
                     lines[j].valid /\ lines[j].tag = tag }
    IN  IF found = {} THEN -1
        ELSE CHOOSE j \in found : \A k \in found : j <= k

RECURSIVE HitScan(_, _, _, _)
HitScan(lines, tag, i, setAssociativity) ==
    IF i >= setAssociativity THEN -1
    ELSE IF lines[i].valid /\ lines[i].tag = tag THEN i
    ELSE HitScan(lines, tag, i + 1, setAssociativity)

\* (mutant) <= in place of <: a later line with an equal LRUcount wins.
LessOrEqualMinUsed(LRUcount, minUsed) ==
    LRUcount = minUsed \/ UnsignedLess(LRUcount, minUsed)

\* The comparison of the victim loop, int LRUcount against uint32_t minUsed.
LessThanMinUsed(LRUcount, minUsed) == UnsignedLess(LRUcount, minUsed)

\* The victim loop from position i with the current tracker and minUsed.
RECURSIVE VictimScan(_, _, _, _, _)
VictimScan(lines, i, tracker, minUsed, setAssociativity) ==
    IF i >= setAssociativity THEN tracker
    ELSE IF ~lines[i].valid THEN i
    ELSE IF LessThanMinUsed(lines[i].LRUcount, minUsed)
         THEN VictimScan(lines, i + 1, i, lines[i].LRUcount, setAssociativity)
         ELSE VictimScan(lines, i + 1, tracker, minUsed, setAssociativity)

\* (mutant) the victim is always the last way of the set.
VictimLastWay(lines, setAssociativity) == setAssociativity - 1

\* int tracker = 0; uint32_t minUsed = numeric_limits<uint32_t>::max();
Victim(lines, setAssociativity) ==
    VictimScan(lines, 0, 0, Uint32Max, setAssociativity)

\* (mutant) the touch-only build with the increment loop of the other build.
TouchOthersIncrements(lines, touched, setAssociativity) ==
    [j \in 0 .. setAssociativity - 1 |->
        IF j # touched /\ lines[j].valid
        THEN [lines[j] EXCEPT !.LRUcount = @ + 1]
        ELSE lines[j]]

\* The lines of the indexed set after line `touched` was hit or installed.
\* touch-only build: nothing else is written.
TouchOthers(lines, touched, setAssociativity) == lines

\* (mutant) the increment loop is missing.
IncrementOthersNone(lines, touched, setAssociativity) == lines

\* (mutant) the increment loop without its i != j test.
IncrementOthersAndTouched(lines, touched, setAssociativity) ==
    [j \in 0 .. setAssociativity - 1 |->
        IF lines[j].valid
        THEN [lines[j] EXCEPT !.LRUcount = @ + 1]
        ELSE lines[j]]

\* full-order build: every other valid line gets LRUcount++.
IncrementOthers(lines, touched, setAssociativity) ==
    [j \in 0 .. setAssociativity - 1 |->
        IF j # touched /\ lines[j].valid
        THEN [lines[j] EXCEPT !.LRUcount = @ + 1]
        ELSE lines[j]]

UpdateOthers(v, lines, touched, setAssociativity) ==
    IF v = "full" THEN IncrementOthers(lines, touched, setAssociativity)
    ELSE TouchOthers(lines, touched, setAssociativity)

\* (mutant) a hit leaves the LRUcount of the matched line as it was.
HitLineKeepsCount(line, now) == line

\* The matched line of a hit: LRUcount = accesscount++.
HitLine(line, now) == [line EXCEPT !.LRUcount = now]

\* (mutant) the victim line is stamped with the incremented accesscount.
InstallLineStampsNext(line, tag, now) ==
    [valid |-> TRUE, tag |-> tag, LRUcount |-> now + 1]

\* (mutant) the tag of the victim line is not written.
InstallLineKeepsTag(line, tag, now) ==
    [valid |-> TRUE, tag |-> line.tag, LRUcount |-> now]

\* The victim line of a miss: valid = true, tag = tag, LRUcount = accesscount++.
InstallLine(line, tag, now) == [valid |-> TRUE, tag |-> tag, LRUcount |-> now]

\* (mutant) a hit is counted as a hit and as a miss.
CountedHitAlsoMiss(g, outcome) ==
    [hit         |-> IF outcome = "Hit" THEN g.hit + 1 ELSE g.hit,
     miss        |-> g.miss + 1,
     accesscount |-> g.accesscount + 1]

\* hit++ or miss++, and the accesscount++ of the LRUcount assignment.
Counted(g, outcome) ==
    [hit         |-> IF outcome = "Hit" THEN g.hit + 1 ELSE g.hit,
     miss        |-> IF outcome = "Miss" THEN g.miss + 1 ELSE g.miss,
     accesscount |-> g.accesscount + 1]

\* One CacheAccess call of build v on the globals g = [hit, miss, accesscount]:
\* the cache and globals it leaves, and how the access was classified.
CacheAccess(v, address, c, setAssociativity, blockSize, cacheLineNum, g) ==
    LET index == getIndex(address, blockSize, cacheLineNum)
        tag   == getTag(address, blockSize, cacheLineNum)
        lines == c[index]
        i     == HitScan(lines, tag, 0, setAssociativity)
    IN  IF i >= 0
        THEN LET hitLines == [lines EXCEPT ![i] = HitLine(lines[i], g.accesscount)]
             IN  [cache   |-> [c EXCEPT ![index] =
                                  UpdateOthers(v, hitLines, i, setAssociativity)],
                  globals |-> Counted(g, "Hit"),
                  outcome |-> "Hit"]
        ELSE LET tracker   == Victim(lines, setAssociativity)
                 missLines == [lines EXCEPT ![tracker] =
                                  InstallLine(lines[tracker], tag, g.accesscount)]
             IN  [cache   |-> [c EXCEPT ![index] =
                                  UpdateOthers(v, missLines, tracker, setAssociativity)],
                  globals |-> Counted(g, "Miss"),
                  outcome |-> "Miss"]

\* ---------------------------------------------------------- simulateCache
\* uint32_t cacheLineNum = cacheSize / (blockSize * setAssociativity);
\* (for every triple of Configs the product is far below 2^32: no wrap-around)
CacheLineNum(cSize, bSize, assoc) == cSize \div (bSize * assoc)

\* (mutant) the zero test is missing.
InvalidConfigurationNever(n) == FALSE

\* if (cacheLineNum == 0)
InvalidConfiguration(n) == n = 0

\* (double)count / (hit + miss) * 100: NaN for 0/0, otherwise the percentage,
\* kept in units of 1/10000 percent.
Rate(count, total) ==
    IF total = 0 THEN [nan |-> TRUE, value |-> 0]
    ELSE [nan |-> FALSE, value |-> (count * 100 * 10000) \div total]

\* The row written to the CSV file.
Row(file, cSize, bSize, assoc, h, m) ==
    [traceFile     |-> file,
     cacheSizeKB   |-> cSize \div 1024,
     blockSize     |-> bSize,
     associativity |-> assoc,
     hitRate       |-> Rate(h, h + m),
     missRate      |-> Rate(m, h + m)]

InvalidMsg == "Invalid configuration: Cache line number is zero"
UnableMsg(file) == <<"Unable to open file: ", file>>

\* The outcome of replaying `addresses` with build v and the given geometry
\* on a newly built cache and zeroed globals.
RECURSIVE ReplayFresh(_, _, _, _, _)
ReplayFresh(v, cSize, bSize, assoc, addresses) ==
    IF addresses = << >>
    THEN [cache    |-> NewCache(CacheLineNum(cSize, bSize, assoc), assoc),
          globals  |-> [hit |-> 0, miss |-> 0, accesscount |-> 0],
          outcomes |-> << >>]
    ELSE LET n    == Len(addresses)
             prev == ReplayFresh(v, cSize, bSize, assoc, SubSeq(addresses, 1, n - 1))
             r    == CacheAccess(v, addresses[n], prev.cache, assoc, bSize,
                                 CacheLineNum(cSize, bSize, assoc), prev.globals)
         IN  [cache    |-> r.cache,
              globals  |-> r.globals,
              outcomes |-> Append(prev.outcomes, r.outcome)]

\* ------------------------------------------------------------------ state
VARIABLES
    variant,           \* which build runs: "touch" or "full"
    pc,                \* "main": between simulateCache calls; "replay": in the getline loop
    cacheSize, blockSize, setAssociativity, traceFile,
                       \* arguments of the current (or most recent) simulateCache call
    cacheLineNum,      \* its local cacheLineNum
    cache,             \* its local cache vector (NoCache outside a replay)
    hit, miss, accesscount,   \* the three globals
    csv,               \* rows written to cache_simulation_results.csv after the header
    cerr,              \* messages written to std::cerr
    calls,             \* simulateCache calls made so far
    nrecords,          \* trace records read so far by the whole process
    trace,             \* addresses replayed so far by the call in progress
    outcomes,          \* their classification, "Hit" or "Miss"
    index, tag,        \* the locals index and tag of the latest CacheAccess of the call
    files              \* the trace files as main's sweep finds them (MainSpec only)

vars == << variant, pc, cacheSize, blockSize, setAssociativity, traceFile,
           cacheLineNum, cache, hit, miss, accesscount, csv, cerr, calls,
           nrecords, trace, outcomes, index, tag, files >>

args == << cacheSize, blockSize, setAssociativity, traceFile >>
globals == << hit, miss, accesscount >>

Init ==
    /\ variant \in {"touch", "full"}
    /\ pc = "main"
    /\ cacheSize = 0 /\ blockSize = 0 /\ setAssociativity = 0 /\ traceFile = ""
    /\ cacheLineNum = 0
    /\ cache = NoCache
    /\ hit = 0 /\ miss = 0 /\ accesscount = 0
    /\ csv = << >>
    /\ cerr = << >>
    /\ calls = 0
    /\ nrecords = 0
    /\ trace = << >>
    /\ outcomes = << >>
    /\ index = 0 /\ tag = 0
    /\ files = << >>

\* main calls simulateCache(cfg, file, csvFile): the arguments are bound.
Call(cfg, file) ==
    /\ pc = "main"
    /\ calls < MaxCalls
    /\ calls' = calls + 1
    /\ cacheSize' = cfg[1]
    /\ blockSize' = cfg[2]
    /\ setAssociativity' = cfg[3]
    /\ traceFile' = file
    /\ cacheLineNum' = CacheLineNum(cfg[1], cfg[2], cfg[3])
    /\ trace' = << >>
    /\ outcomes' = << >>
    /\ UNCHANGED << variant, nrecords, index, tag, files >>

\* simulateCache with cacheLineNum == 0: the message, then return.
SimulateCacheInvalid ==
    \E cfg \in Configs, file \in TraceFiles :
        /\ Call(cfg, file)
        /\ InvalidConfiguration(cacheLineNum')
        /\ cerr' = Append(cerr, InvalidMsg)
        /\ pc' = "main"
        /\ UNCHANGED << cache, hit, miss, accesscount, csv >>

\* simulateCache whose trace file does not open: the cache is built and the
\* globals are reset before the open is tried; the cache dies with the return.
SimulateCacheUnreadable ==
    \E cfg \in Configs, file \in TraceFiles :
        /\ Call(cfg, file)
        /\ ~InvalidConfiguration(cacheLineNum')
        /\ hit' = 0 /\ miss' = 0 /\ accesscount' = 0
        /\ cerr' = Append(cerr, UnableMsg(file))
        /\ cache' = NoCache
        /\ pc' = "main"
        /\ UNCHANGED csv

\* (mutant) the globals are not reset at the start of a replay.
SimulateCacheBeginNoReset ==
    \E cfg \in Configs, file \in TraceFiles :
        /\ Call(cfg, file)
        /\ ~InvalidConfiguration(cacheLineNum')
        /\ cache' = NewCache(cacheLineNum', cfg[3])
        /\ pc' = "replay"
        /\ UNCHANGED << hit, miss, accesscount, csv, cerr >>

\* simulateCache up to the first getline: cache built, globals reset, file open.
SimulateCacheBegin ==
    \E cfg \in Configs, file \in TraceFiles :
        /\ Call(cfg, file)
        /\ ~InvalidConfiguration(cacheLineNum')
        /\ cache' = NewCache(cacheLineNum', cfg[3])
        /\ hit' = 0 /\ miss' = 0 /\ accesscount' = 0
        /\ pc' = "replay"
        /\ UNCHANGED << csv, cerr >>

\* One iteration of the getline loop on a record carrying `address`.
Replay(address) ==
    /\ pc = "replay"
    /\ LET r == CacheAccess(variant, address, cache, setAssociativity, blockSize,
                            cacheLineNum,
                            [hit |-> hit, miss |-> miss, accesscount |-> accesscount])
       IN  /\ cache' = r.cache
           /\ hit' = r.globals.hit
           /\ miss' = r.globals.miss
           /\ accesscount' = r.globals.accesscount
           /\ outcomes' = Append(outcomes, r.outcome)
    /\ index' = getIndex(address, blockSize, cacheLineNum)
    /\ tag' = getTag(address, blockSize, cacheLineNum)
    /\ trace' = Append(trace, address)
    /\ nrecords' = nrecords + 1
    /\ UNCHANGED << variant, pc, args, cacheLineNum, csv, cerr, calls, files >>

\* One iteration of the getline loop: a record is read and its address replayed.
ReplayRecord ==
    \E address \in Addrs :
        /\ nrecords < MaxRecords
        /\ Replay(address)

\* getline fails (end of the trace): the rates are computed, the row is written.
SimulateCacheEnd ==
    /\ pc = "replay"
    /\ csv' = Append(csv, Row(traceFile, cacheSize, blockSize, setAssociativity, hit, miss))
    /\ cache' = NoCache
    /\ trace' = << >>
    /\ outcomes' = << >>
    /\ index' = 0 /\ tag' = 0
    /\ pc' = "main"
    /\ UNCHANGED << variant, args, cacheLineNum, globals, cerr, calls, nrecords, files >>

Next ==
    \/ SimulateCacheInvalid
    \/ SimulateCacheUnreadable
    \/ SimulateCacheBegin
    \/ ReplayRecord
    \/ SimulateCacheEnd

Spec == Init /\ [][Next]_vars

\* --------------------------------------------------------------- DecodeSpec
\* getIndex and getTag over wide geometries and addresses: simulateCache has
\* been called once with a geometry of DecodeConfigs and stands at its first
\* getline; the records then carry addresses of DecodeAddrs.
DecodeInit ==
    /\ variant \in {"touch", "full"}
    /\ pc = "replay"
    /\ \E cfg \in DecodeConfigs :
          /\ cacheSize = cfg[1] /\ blockSize = cfg[2] /\ setAssociativity = cfg[3]
          /\ cacheLineNum = CacheLineNum(cfg[1], cfg[2], cfg[3])
          /\ cache = NewCache(CacheLineNum(cfg[1], cfg[2], cfg[3]), cfg[3])
    /\ traceFile \in TraceFiles
    /\ hit = 0 /\ miss = 0 /\ accesscount = 0
    /\ csv = << >>
    /\ cerr = << >>
    /\ calls = 1
    /\ nrecords = 0
    /\ trace = << >>
    /\ outcomes = << >>
    /\ index = 0 /\ tag = 0
    /\ files = << >>

DecodeRecord ==
    \E address \in DecodeAddrs :
        /\ nrecords < MaxDecode
        /\ Replay(address)

DecodeNext == DecodeRecord

DecodeSpec == DecodeInit /\ [][DecodeNext]_vars

\* ----------------------------------------------------------------- MainSpec
\* main as written: the CSV file is opened, then simulateCache is called for
\* each entry of the four sweeps in turn, then the file is closed.  A call
\* is one step here (its getline loop is replayed inside the step), and the
\* trace files are as the run finds them: each one unreadable, or readable
\* with the records the variable `files` gives it.

\* vector<string> traceFiles
traceFiles == << "gcc.trace", "gzip.trace", "mcf.trace", "swim.trace", "twolf.trace" >>

fixedCacheSize == 1024 * 1024
fixedBlockSize == 4
fixedAssociativity == 4

\* The values of `for (x = from; x <= to; x *= 2)`.
RECURSIVE Doublings(_, _)
Doublings(from, to) ==
    IF from <= to THEN << from >> \o Doublings(2 * from, to) ELSE << >>

\* for (traceFile : traceFiles) for (value : values): the (value, traceFile)
\* pairs in the order the loops visit them.
Nested(values) ==
    [k \in 1 .. Len(traceFiles) * Len(values) |->
        << values[((k - 1) % Len(values)) + 1],
           traceFiles[((k - 1) \div Len(values)) + 1] >>]

QuestionA ==
    [k \in 1 .. Len(traceFiles) |->
        << fixedCacheSize, fixedBlockSize, fixedAssociativity, traceFiles[k] >>]
QuestionB ==
    LET loops == Nested(Doublings(128 * 1024, 4096 * 1024))
    IN  [k \in DOMAIN loops |->
            << loops[k][1], fixedBlockSize, fixedAssociativity, loops[k][2] >>]
QuestionC ==
    LET loops == Nested(Doublings(1, 128))
    IN  [k \in DOMAIN loops |->
            << fixedCacheSize, loops[k][1], fixedAssociativity, loops[k][2] >>]
QuestionD ==
    LET loops == Nested(Doublings(1, 64))
    IN  [k \in DOMAIN loops |->
            << fixedCacheSize, fixedBlockSize, loops[k][1], loops[k][2] >>]

\* The arguments of every simulateCache call of main, in program order.
Sweep == QuestionA \o QuestionB \o QuestionC \o QuestionD

\* What a run may find for a trace file: it does not open, or it opens and
\* holds no record, or the addresses 0x0, 0x4, 0x0.
Unreadable == [readable |-> FALSE, records |-> << >>]
FileRecords == {<< >>, << 0, 4, 0 >>}
FileStates == {Unreadable} \cup { [readable |-> TRUE, records |-> r] : r \in FileRecords }

\* hit, miss and accesscount after the getline loop over `addresses`.
ReplayAll(v, cSize, bSize, assoc, addresses) ==
    IF addresses = << >> THEN [hit |-> 0, miss |-> 0, accesscount |-> 0]
    ELSE ReplayFresh(v, cSize, bSize, assoc, addresses).globals

MainInit ==
    /\ variant \in {"touch", "full"}
    /\ pc = "start"
    /\ cacheSize = 0 /\ blockSize = 0 /\ setAssociativity = 0 /\ traceFile = ""
    /\ cacheLineNum = 0
    /\ cache = NoCache
    /\ hit = 0 /\ miss = 0 /\ accesscount = 0
    /\ csv = << >>
    /\ cerr = << >>
    /\ calls = 0
    /\ nrecords = 0
    /\ trace = << >>
    /\ outcomes = << >>
    /\ index = 0 /\ tag = 0
    /\ files \in [{ traceFiles[k] : k \in 1 .. Len(traceFiles) } -> FileStates]

\* ofstream csvFile(...) opens; the header line is written.
MainOpenCsv ==
    /\ pc = "start"
    /\ pc' = "main"
    /\ UNCHANGED << variant, args, cacheLineNum, cache, globals, csv, cerr, calls,
                    nrecords, trace, outcomes, index, tag, files >>

\* !csvFile.is_open(): the message, return 1.
MainOpenCsvFails ==
    /\ pc = "start"
    /\ cerr' = Append(cerr, "Unable to open CSV file for writing")
    /\ pc' = "failed"
    /\ UNCHANGED << variant, args, cacheLineNum, cache, globals, csv, calls,
                    nrecords, trace, outcomes, index, tag, files >>

\* simulateCache returns at cacheLineNum == 0.
Rejected ==
    /\ cerr' = Append(cerr, InvalidMsg)
    /\ pc' = "main"
    /\ UNCHANGED << hit, miss, accesscount, csv, nrecords >>

\* (mutant) an unreadable trace file ends the run.
UnopenedEndsRun(file) ==
    /\ hit' = 0 /\ miss' = 0 /\ accesscount' = 0
    /\ cerr' = Append(cerr, UnableMsg(file))
    /\ pc' = "failed"
    /\ UNCHANGED << csv, nrecords >>

\* simulateCache returns at !tracefile.is_open(), after the globals' reset.
Unopened(file) ==
    /\ hit' = 0 /\ miss' = 0 /\ accesscount' = 0
    /\ cerr' = Append(cerr, UnableMsg(file))
    /\ pc' = "main"
    /\ UNCHANGED << csv, nrecords >>

\* simulateCache runs to its end: the records are replayed, the row written.
Replayed(e, records) ==
    LET g == ReplayAll(variant, e[1], e[2], e[3], records)
    IN  /\ hit' = g.hit /\ miss' = g.miss /\ accesscount' = g.accesscount
        /\ csv' = Append(csv, Row(e[4], e[1], e[2], e[3], g.hit, g.miss))
        /\ nrecords' = nrecords + Len(records)
        /\ pc' = "main"
        /\ UNCHANGED cerr

\* The next simulateCache call of main, from call to return.
MainSimulateCache ==
    /\ pc = "main"
    /\ calls < Len(Sweep)
    /\ calls' = calls + 1
    /\ LET e == Sweep[calls + 1]
       IN  /\ cacheSize' = e[1] /\ blockSize' = e[2] /\ setAssociativity' = e[3]
           /\ traceFile' = e[4]
           /\ cacheLineNum' = CacheLineNum(e[1], e[2], e[3])
           /\ IF InvalidConfiguration(cacheLineNum') THEN Rejected
              ELSE IF ~files[e[4]].readable THEN Unopened(e[4])
              ELSE Replayed(e, files[e[4]].records)
    /\ cache' = NoCache
    /\ UNCHANGED << variant, trace, outcomes, index, tag, files >>

\* csvFile.close(); return 0;
MainReturn ==
    /\ pc = "main"
    /\ calls = Len(Sweep)
    /\ pc' = "done"
    /\ UNCHANGED << variant, args, cacheLineNum, cache, globals, csv, cerr, calls,
                    nrecords, trace, outcomes, index, tag, files >>

MainNext ==
    \/ MainOpenCsv
    \/ MainOpenCsvFails
    \/ MainSimulateCache
    \/ MainReturn

\* Where main stands: its position in the code and in the sweep.
progress == << pc, calls >>

\* A step of main, seen on `progress`: before its return, the next statement
\* makes a call or changes pc.  Every step of MainNext is one, and one is
\* possible exactly when main has not returned.
MainStep ==
    /\ pc \in {"start", "main"}
    /\ \/ calls' = calls + 1 /\ pc' = "main"
       \/ calls' = calls /\ pc' \in {"main", "failed", "done"}

\* main is a sequential program that keeps running: its next statement is
\* eventually executed.
MainSpec == MainInit /\ [][MainNext]_vars /\ WF_progress(MainStep)

TypeOK ==
    /\ variant \in {"touch", "full"}
    /\ pc \in {"main", "replay"}
    /\ hit \in Nat /\ miss \in Nat /\ accesscount \in Nat
    /\ calls \in 0 .. MaxCalls
    /\ nrecords \in 0 .. MaxRecords
    /\ Len(trace) = Len(outcomes)
    /\ pc = "replay" => DOMAIN cache = 0 .. cacheLineNum - 1

\* ============================================================== properties
\* Vocabulary shared by the properties below.

Ways == 0 .. setAssociativity - 1
Sets == DOMAIN cache

\* A step that is one CacheAccess call (one iteration of the getline loop).
AccessStep == pc = "replay" /\ Len(trace') = Len(trace) + 1

\* Address, set index and tag of the access made by an AccessStep.
StepAddress == trace'[Len(trace')]
StepIndex == getIndex(StepAddress, blockSize, cacheLineNum)
StepTag == getTag(StepAddress, blockSize, cacheLineNum)

\* Set index and tag of the k-th access of the current replay.
IndexAt(k) == getIndex(trace[k], blockSize, cacheLineNum)
TagAt(k) == getTag(trace[k], blockSize, cacheLineNum)

\* The ways of set s whose line is valid (and holds tag t).
ValidWays(s) == { i \in Ways : cache[s][i].valid }
WaysWithTag(s, t) == { i \in ValidWays(s) : cache[s][i].tag = t }
ResidentTags(s) == { cache[s][i].tag : i \in ValidWays(s) }

Min(S) == CHOOSE x \in S : \A y \in S : x <= y
Max(S) == CHOOSE x \in S : \A y \in S : x >= y

\* The victim a miss on set s must take: the lowest invalid way if there is
\* one, otherwise the lowest way among those of smallest LRUcount.
ExpectedVictim(s) ==
    IF ValidWays(s) # Ways
    THEN Min(Ways \ ValidWays(s))
    ELSE LET least == Min({ cache[s][i].LRUcount : i \in Ways })
         IN  Min({ i \in Ways : cache[s][i].LRUcount = least })

\* The positions of the current replay, in order, whose access mapped to set s.
AccessesTo(s) == SelectSeq([k \in 1 .. Len(trace) |-> k], LAMBDA k : IndexAt(k) = s)

\* ---------------------------------------------------------------------- C1
\* C1: in both builds, during any replay every set holds at most
\* `associativity` valid lines (its ways are exactly 0 .. associativity-1) and
\* no two valid lines of one set have equal tags.
C1_SetInvariant ==
    pc = "replay" =>
        \A s \in Sets :
            /\ DOMAIN cache[s] = Ways
            /\ Cardinality(ValidWays(s)) <= setAssociativity
            /\ \A i, j \in ValidWays(s) : i # j => cache[s][i].tag # cache[s][j].tag

\* A full 2-way set right after a repeated tag was found again (a hit) and
\* after an eviction: two valid lines, distinct tags.
C1_Witness ==
    /\ pc = "replay" /\ setAssociativity = 2
    /\ \E s \in Sets : Cardinality(ValidWays(s)) = 2
    /\ hit >= 1 /\ miss >= 3

\* ---------------------------------------------------------------------- C2
\* C2: full-order build, associativity 2: whenever the accesses of the current
\* replay that mapped to a set S are exactly A, B, A, C with A, B, C distinct
\* tags (accesses to other sets may lie in between), they were classified
\* Miss, Miss, Hit, Miss and S now holds A and C, not B.
C2_FullOrderEvictsB ==
    (variant = "full" /\ pc = "replay" /\ setAssociativity = 2) =>
        \A s \in Sets :
            LET p == AccessesTo(s)
            IN  ( /\ Len(p) = 4
                  /\ TagAt(p[1]) = TagAt(p[3])
                  /\ Cardinality({TagAt(p[1]), TagAt(p[2]), TagAt(p[4])}) = 3 )
                =>
                ( /\ << outcomes[p[1]], outcomes[p[2]], outcomes[p[3]], outcomes[p[4]] >>
                        = << "Miss", "Miss", "Hit", "Miss" >>
                  /\ ResidentTags(s) = {TagAt(p[1]), TagAt(p[4])} )

\* ---------------------------------------------------------------------- C3
\* C3: every CacheAccess call adds exactly 1 to accesscount and exactly 1 to
\* exactly one of hit and miss; during a replay hit + miss = accesscount = the
\* number of accesses replayed; within one call of simulateCache no counter
\* ever decreases.
C3_Counters ==
    /\ [](hit + miss = accesscount)
    /\ [](pc = "replay" => accesscount = Len(trace))
    /\ [][AccessStep =>
            /\ accesscount' = accesscount + 1
            /\ \/ hit' = hit + 1 /\ miss' = miss
               \/ hit' = hit /\ miss' = miss + 1]_vars
    /\ [][calls' = calls =>
            hit' >= hit /\ miss' >= miss /\ accesscount' >= accesscount]_vars

\* A replay that has classified hits and misses.
C3_Witness ==
    pc = "replay" /\ hit >= 2 /\ miss >= 2 /\ Len(trace) = hit + miss

\* ---------------------------------------------------------------------- C4
\* C4: with associativity 1 (both builds, any number of sets) the k-th access
\* is a Hit iff the most recent earlier access to the same set carried the
\* same tag (so the first access to a set is a Miss); and the trace
\* 0x0, 0x0, 0x10, 0x0 with blockSize 16 and one set gives Miss, Hit, Miss,
\* Miss, hit = 1, miss = 3.
C4_DirectMapped ==
    (pc = "replay" /\ setAssociativity = 1) =>
        /\ \A k \in 1 .. Len(trace) :
              LET earlier == { j \in 1 .. k - 1 : IndexAt(j) = IndexAt(k) }
              IN  outcomes[k] = "Hit" <=>
                     (earlier # {} /\ TagAt(Max(earlier)) = TagAt(k))
        /\ \A s \in Sets :
              AccessesTo(s) # << >> =>
                  ResidentTags(s) = { TagAt(AccessesTo(s)[Len(AccessesTo(s))]) }
        /\ (blockSize = 16 /\ cacheLineNum = 1 /\ trace = << 0, 0, 16, 0 >>) =>
              (outcomes = << "Miss", "Hit", "Miss", "Miss" >> /\ hit = 1 /\ miss = 3)

\* The end-to-end trace has been replayed on the direct-mapped single set.
C4_Witness ==
    /\ pc = "replay" /\ setAssociativity = 1 /\ blockSize = 16 /\ cacheLineNum = 1
    /\ trace = << 0, 0, 16, 0 >>
    /\ outcomes = << "Miss", "Hit", "Miss", "Miss" >>

\* ---------------------------------------------------------------------- C5
\* C5: in both builds, an access whose tag no valid line of the indexed set
\* holds takes as victim the lowest invalid way if any, otherwise the lowest
\* way of smallest LRUcount; after it the victim is valid, holds the query
\* tag and has LRUcount = the accesscount of before the access, and no other
\* line of the set changed its valid flag or tag.
C5_VictimPriority ==
    [][(AccessStep /\ WaysWithTag(StepIndex, StepTag) = {}) =>
          LET s == StepIndex
              v == ExpectedVictim(s)
          IN  /\ cache'[s][v] = [valid |-> TRUE, tag |-> StepTag, LRUcount |-> accesscount]
              /\ \A i \in Ways \ {v} :
                    /\ cache'[s][i].valid = cache[s][i].valid
                    /\ cache'[s][i].tag = cache[s][i].tag]_vars

\* Right after an eviction from a full 2-way set whose two lines had equal
\* LRUcount (the tie is broken towards way 0).
C5_Witness ==
    /\ pc = "replay" /\ setAssociativity = 2 /\ cacheLineNum = 1
    /\ variant = "full"
    /\ Len(trace) >= 3 /\ outcomes[Len(outcomes)] = "Miss" /\ miss >= 3
    /\ cache[0][0] = [valid |-> TRUE, tag |-> TagAt(Len(trace)), LRUcount |-> accesscount - 1]

\* ---------------------------------------------------------------------- C6
\* C6: at every point of every replay, whatever simulateCache calls came
\* before it (completed, rejected for zero sets, or failed on the trace file),
\* the classification of the accesses so far, the counters and the cache are
\* those that the geometry and the address sequence alone give from all-invalid
\* lines and hit = miss = accesscount = 0.
C6_Deterministic ==
    pc = "replay" =>
        LET f == ReplayFresh(variant, cacheSize, blockSize, setAssociativity, trace)
        IN  /\ outcomes = f.outcomes
            /\ hit = f.globals.hit
            /\ miss = f.globals.miss
            /\ accesscount = f.globals.accesscount
            /\ cache = f.cache

\* A second call replaying after a first call that left non-zero counters.
C6_Witness ==
    /\ pc = "replay" /\ calls = 2
    /\ Len(csv) = 1 /\ ~csv[1].hitRate.nan /\ csv[1].missRate.value > 0
    /\ Len(trace) >= 2 /\ hit >= 1

\* ---------------------------------------------------------------------- C7
\* The position in the current replay of the last access to the tag that
\* way i of set s holds.
LastAccess(s, i) ==
    Max({ k \in 1 .. Len(trace) : IndexAt(k) = s /\ TagAt(k) = cache[s][i].tag })

\* C7: full-order build: any two distinct valid lines of one set have
\* different LRUcount values, ordered as their last accesses are.
C7_TotalOrder ==
    (variant = "full" /\ pc = "replay") =>
        \A s \in Sets : \A i, j \in ValidWays(s) :
            i # j =>
                /\ cache[s][i].LRUcount # cache[s][j].LRUcount
                /\ (LastAccess(s, i) < LastAccess(s, j))
                      <=> (cache[s][i].LRUcount < cache[s][j].LRUcount)

\* ---------------------------------------------------------------------- C8
\* The way an AccessStep touches: the matching way on a hit, the victim on a miss.
StepWay ==
    IF WaysWithTag(StepIndex, StepTag) # {}
    THEN Min(WaysWithTag(StepIndex, StepTag))
    ELSE ExpectedVictim(StepIndex)

\* C8: touch-only build: each CacheAccess changes exactly one line of the
\* whole cache, the matched line on a hit or the victim on a miss; on a hit
\* that line keeps valid and tag and gets LRUcount = the accesscount of before
\* the access.
C8_TouchOnlyFrame ==
    [][(variant = "touch" /\ AccessStep) =>
          LET s == StepIndex
              w == StepWay
          IN  /\ DOMAIN cache' = DOMAIN cache
              /\ \A s2 \in Sets : DOMAIN cache'[s2] = Ways
              /\ \A s2 \in Sets : \A i \in Ways :
                    (cache'[s2][i] # cache[s2][i]) <=> (s2 = s /\ i = w)
              /\ WaysWithTag(s, StepTag) # {} =>
                    cache'[s][w] = [cache[s][w] EXCEPT !.LRUcount = accesscount]]_vars

\* Touch-only build right after a hit on a 2-way set with both lines valid,
\* in a cache of two sets with a valid line in the other set as well.
C8_Witness ==
    /\ variant = "touch" /\ pc = "replay" /\ setAssociativity = 2 /\ cacheLineNum = 2
    /\ Len(outcomes) >= 4 /\ outcomes[Len(outcomes)] = "Hit"
    /\ ValidWays(IndexAt(Len(trace))) = {0, 1}
    /\ \A s \in Sets : ValidWays(s) # {}

\* ---------------------------------------------------------------------- C9
\* C9: full-order build: on every access the matched or installed line gets
\* LRUcount = the accesscount of before the access, every other valid line of
\* the indexed set has LRUcount increased by exactly 1, invalid lines of the
\* set and all lines of other sets are unchanged, and only a victim changes
\* valid or tag.
C9_FullOrderUpdate ==
    [][(variant = "full" /\ AccessStep) =>
          LET s == StepIndex
              w == StepWay
              isHit == WaysWithTag(s, StepTag) # {}
          IN  /\ DOMAIN cache' = DOMAIN cache
              /\ cache'[s][w] =
                    IF isHit THEN [cache[s][w] EXCEPT !.LRUcount = accesscount]
                    ELSE [valid |-> TRUE, tag |-> StepTag, LRUcount |-> accesscount]
              /\ \A i \in Ways \ {w} :
                    cache'[s][i] =
                        IF cache[s][i].valid
                        THEN [cache[s][i] EXCEPT !.LRUcount = cache[s][i].LRUcount + 1]
                        ELSE cache[s][i]
              /\ \A s2 \in Sets \ {s} : cache'[s2] = cache[s2]]_vars

\* Full-order build right after a hit on a 2-way set with both lines valid,
\* in a cache of two sets with a valid line in the other set as well.
C9_Witness ==
    /\ variant = "full" /\ pc = "replay" /\ setAssociativity = 2 /\ cacheLineNum = 2
    /\ Len(outcomes) >= 4 /\ outcomes[Len(outcomes)] = "Hit"
    /\ ValidWays(IndexAt(Len(trace))) = {0, 1}
    /\ \A s \in Sets : ValidWays(s) # {}

\* --------------------------------------------------------------------- C10
\* C10: a simulateCache call whose cacheSize / (blockSize * associativity) is
\* 0 (cacheSize < blockSize * associativity) writes the configuration error
\* and returns: no cache, no record replayed, no row, and hit, miss and
\* accesscount as they were.
C10_ZeroSetsRejected ==
    [][(calls' = calls + 1 /\ cacheSize' < blockSize' * setAssociativity') =>
          /\ cerr' = Append(cerr, InvalidMsg)
          /\ pc' = "main"
          /\ cache' = NoCache
          /\ csv' = csv
          /\ nrecords' = nrecords /\ trace' = << >> /\ outcomes' = << >>
          /\ hit' = hit /\ miss' = miss /\ accesscount' = accesscount]_vars

\* A rejected call (cacheSize = blockSize * associativity - 1, two ways) made
\* after a completed replay: the counters of that replay are still there.
C10_Witness ==
    /\ pc = "main" /\ calls = 2 /\ setAssociativity = 2
    /\ cacheSize = blockSize * setAssociativity - 1
    /\ cerr = << InvalidMsg >>
    /\ Len(csv) = 1 /\ cache = NoCache
    /\ accesscount >= 2 /\ hit >= 1 /\ miss >= 1

\* --------------------------------------------------------------------- C11
\* 2^0 .. 2^30, by exponent and as a set.
PowerOfTwo == [k \in 0 .. 30 |-> Pow2(k)]
PowersOfTwo == { PowerOfTwo[k] : k \in 0 .. 30 }
IsPowerOfTwo(n) == n \in PowersOfTwo

\* C11: simulateCache replays accesses only for configurations whose block
\* size and number of sets are positive powers of two; any other
\* configuration is rejected and never reaches the replay loop.
C11_OnlyPowerOfTwoReplayed ==
    pc = "replay" => (IsPowerOfTwo(cacheLineNum) /\ IsPowerOfTwo(blockSize))

\* --------------------------------------------------------------------- C12
\* C12: no row of the result file holds a rate that came out of a division
\* with hit + miss = 0: for an empty trace the rates are left undefined.
C12_NoRateFromZeroTotal ==
    \A i \in 1 .. Len(csv) : ~csv[i].hitRate.nan /\ ~csv[i].missRate.nan

\* --------------------------------------------------------------------- C14
\* C14: the two builds are not trace-equivalent: with cacheSize 16,
\* blockSize 8 and 2 ways (one set), after 0x0, 0x10, 0x0, 0x20 from a fresh
\* cache the touch-only build has evicted tag 2 and the full-order build
\* tag 0, and a fifth access 0x0 is a Hit in the first and a Miss in the second.
C14_BuildsDiffer ==
    (pc = "replay" /\ cacheSize = 16 /\ blockSize = 8 /\ setAssociativity = 2) =>
        /\ trace = << 0, 16, 0, 32 >> =>
              /\ outcomes = << "Miss", "Miss", "Hit", "Miss" >>
              /\ variant = "touch" => ResidentTags(0) = {0, 4}
              /\ variant = "full" => ResidentTags(0) = {2, 4}
        /\ trace = << 0, 16, 0, 32, 0 >> =>
              /\ variant = "touch" => outcomes[5] = "Hit"
              /\ variant = "full" => outcomes[5] = "Miss"
              /\ ReplayFresh("touch", 16, 8, 2, trace).outcomes
                    # ReplayFresh("full", 16, 8, 2, trace).outcomes

\* The full-order build has classified the fifth access as a Miss where the
\* touch-only build, on the same geometry and addresses, gives a Hit.
C14_Witness ==
    /\ variant = "full" /\ pc = "replay"
    /\ cacheSize = 16 /\ blockSize = 8 /\ setAssociativity = 2
    /\ trace = << 0, 16, 0, 32, 0 >>
    /\ outcomes[5] = "Miss"
    /\ ReplayFresh("touch", 16, 8, 2, trace).outcomes[5] = "Hit"

\* --------------------------------------------------------------------- C16
\* The accesses to set s among the first n of the current replay.
AccessesUpTo(s, n) == { k \in 1 .. n : IndexAt(k) = s }

\* The (up to setAssociativity) most recently accessed distinct tags of set s
\* after the first n accesses: the tags with fewer than setAssociativity other
\* tags accessed in s since their own access.
MostRecentTags(s, n) ==
    { TagAt(j) : j \in
        { k \in AccessesUpTo(s, n) :
            Cardinality({ TagAt(m) : m \in AccessesUpTo(s, n) \ (1 .. k) } \ {TagAt(k)})
                < setAssociativity } }

\* C16: touch-only build, any associativity and number of sets: at every
\* point of a replay the tags resident in a set are exactly its most recently
\* accessed distinct tags (at most `associativity` of them), and an access was
\* a Hit iff its tag was among them just before it.
C16_ExactLRU ==
    (variant = "touch" /\ pc = "replay") =>
        /\ \A s \in Sets : ResidentTags(s) = MostRecentTags(s, Len(trace))
        /\ \A n \in 1 .. Len(trace) :
              outcomes[n] = "Hit" <=> TagAt(n) \in MostRecentTags(IndexAt(n), n - 1)

\* Touch-only build after A, B, A, C on one 2-way set: A was touched again,
\* so C took the place of B.
C16_Witness ==
    /\ variant = "touch" /\ pc = "replay"
    /\ setAssociativity = 2 /\ cacheLineNum = 1
    /\ Len(trace) = 4 /\ TagAt(1) = TagAt(3)
    /\ Cardinality({TagAt(1), TagAt(2), TagAt(4)}) = 3
    /\ ResidentTags(0) = {TagAt(1), TagAt(4)}

\* --------------------------------------------------------------------- C17
\* C17: full-order build: of two valid lines of one set, the one whose last
\* access is earlier has LRUcount <= that of the other, and every valid
\* line has LRUcount <= accesscount - 1; so in a full set the least recently
\* accessed line holds the minimum LRUcount (possibly tied).
C17_FullOrderMonotone ==
    (variant = "full" /\ pc = "replay") =>
        \A s \in Sets :
            /\ \A i, j \in ValidWays(s) :
                  LastAccess(s, i) < LastAccess(s, j) =>
                      cache[s][i].LRUcount <= cache[s][j].LRUcount
            /\ \A i \in ValidWays(s) : cache[s][i].LRUcount <= accesscount - 1
            /\ ValidWays(s) = Ways =>
                  \A i \in Ways :
                      (\A j \in Ways : LastAccess(s, i) <= LastAccess(s, j)) =>
                          cache[s][i].LRUcount = Min({ cache[s][j].LRUcount : j \in Ways })

\* Full-order build, a full 2-way set of a two-set cache whose earlier
\* accessed line has the strictly smaller LRUcount (an access to the other
\* set lay in between).
C17_Witness ==
    /\ variant = "full" /\ pc = "replay" /\ setAssociativity = 2 /\ cacheLineNum = 2
    /\ \E s \in Sets :
          /\ ValidWays(s) = Ways
          /\ \E i, j \in Ways :
                /\ LastAccess(s, i) < LastAccess(s, j)
                /\ cache[s][i].LRUcount < cache[s][j].LRUcount

\* --------------------------------------------------------------------- C18
\* The valid ways and resident tags of set s after the step.
ValidWaysNext(s) == { i \in Ways : cache'[s][i].valid }
ResidentTagsNext(s) == { cache'[s][i].tag : i \in ValidWaysNext(s) }

\* C18: both builds, within a replay: a valid line stays valid; the valid
\* lines of a set are a prefix of its ways; a valid line gets another tag
\* only by a miss on its own set when all lines of that set are valid; the
\* number of valid lines of a set never decreases; and an access removes at
\* most one resident tag, none unless it evicts.
C18_ValidPrefix ==
    /\ [](pc = "replay" =>
            \A s \in Sets : \A i \in ValidWays(s) : \A j \in 0 .. i - 1 : j \in ValidWays(s))
    /\ [][AccessStep =>
            \A s \in Sets :
                /\ ValidWays(s) \subseteq ValidWaysNext(s)
                /\ Cardinality(ValidWaysNext(s)) >= Cardinality(ValidWays(s))
                /\ \A i \in ValidWays(s) :
                      cache'[s][i].tag # cache[s][i].tag =>
                          /\ s = StepIndex
                          /\ ValidWays(s) = Ways
                          /\ outcomes'[Len(outcomes')] = "Miss"
                /\ Cardinality(ResidentTags(s) \ ResidentTagsNext(s)) <= 1
                /\ ResidentTags(s) \ ResidentTagsNext(s) # {} =>
                      (s = StepIndex /\ ValidWays(s) = Ways)]_vars

\* Right after a miss that replaced a tag of a full 2-way set: three
\* distinct tags were accessed, two are resident, both ways are valid.
C18_Witness ==
    /\ pc = "replay" /\ setAssociativity = 2
    /\ outcomes # << >> /\ outcomes[Len(outcomes)] = "Miss"
    /\ ValidWays(IndexAt(Len(trace))) = Ways
    /\ Cardinality({ TagAt(k) : k \in AccessesUpTo(IndexAt(Len(trace)), Len(trace)) }) >= 3
    /\ TagAt(Len(trace)) \in ResidentTags(IndexAt(Len(trace)))

\* --------------------------------------------------------------------- C13
\* Bit j (0 .. 31) of a 32-bit pattern, and the pattern of 32 given bits.
BitOf(a, j) ==
    IF j = 31 THEN (IF a < 0 THEN 1 ELSE 0) ELSE (a \div PowerOfTwo[j]) % 2

RECURSIVE SumBits(_, _)
SumBits(f, j) == IF j < 0 THEN 0 ELSE f[j] * PowerOfTwo[j] + SumBits(f, j - 1)

Pattern(f) == (IF f[31] = 1 THEN (-2147483647) - 1 ELSE 0) + SumBits(f, 30)

\* Bits [from, from + width) of a, moved down to bit 0, as a pattern.
Field(a, from, width) ==
    Pattern([j \in 0 .. 31 |->
                IF j < width /\ j + from <= 31 THEN BitOf(a, j + from) ELSE 0])

\* The exponent of a power of two.
ExponentOf(n) == CHOOSE k \in 0 .. 30 : PowerOfTwo[k] = n

\* C13: for power-of-two blockSize = 2^o and numSets = 2^i (o + i <= 30 here)
\* and any 32-bit address: getIndex is bits [o, o+i) of the address, i.e.
\* (address / blockSize) mod numSets; getTag is bits [o+i, 32), i.e.
\* address / (blockSize * numSets); two addresses of a replay get the same
\* (index, tag) iff they have the same block number address / blockSize; and
\* tag * numSets + index is that block number.
C13_Decode ==
    (trace # << >> /\ IsPowerOfTwo(blockSize) /\ IsPowerOfTwo(cacheLineNum)) =>
        LET a == trace[Len(trace)]
            o == ExponentOf(blockSize)
            i == ExponentOf(cacheLineNum)
            block == Field(a, o, 32)
        IN  /\ index = Field(a, o, i)
            /\ tag = Field(a, o + i, 32)
            /\ a >= 0 =>
                  /\ index = (a \div blockSize) % cacheLineNum
                  /\ tag = a \div (blockSize * cacheLineNum)
                  /\ block = a \div blockSize
            /\ (block >= 0 \/ cacheLineNum = 1) => tag * cacheLineNum + index = block
            /\ \A k \in 1 .. Len(trace) :
                  (IndexAt(k) = index /\ TagAt(k) = tag)
                      <=> Field(trace[k], o, 32) = block

\* An address with bit 31 set was decoded with 4 offset bits and 2 index
\* bits into a non-zero index and tag, after an address of another block.
C13_Witness ==
    /\ pc = "replay" /\ blockSize = 16 /\ cacheLineNum = 4
    /\ Len(trace) = 2 /\ trace[2] < 0
    /\ index > 0 /\ tag > 0
    /\ trace[1] = 0 /\ trace[2] # 0

\* --------------------------------------------------------------------- C19
\* The largest power of two that is <= n.
FloorPow2(n) == Max({ p \in PowersOfTwo : p <= n })

\* C19: for every number of sets >= 1, power of two or not, and every 32-bit
\* address, 0 <= getIndex < numSets, in fact getIndex < 2^floor(log2 numSets);
\* so the sets from that number on are never accessed: all their lines stay
\* invalid.
C19_IndexInRange ==
    (pc = "replay" /\ trace # << >>) =>
        /\ index >= 0 /\ index < cacheLineNum
        /\ index < FloorPow2(cacheLineNum)
        /\ \A s \in Sets : s >= FloorPow2(cacheLineNum) => ValidWays(s) = {}

\* Six sets: an address with bit 31 set went to set 3, the highest set in
\* use, after an access to another set; sets 4 and 5 hold no valid line.
C19_Witness ==
    /\ pc = "replay" /\ cacheLineNum = 6
    /\ Len(trace) = 2 /\ trace[2] < 0 /\ index = 3
    /\ ValidWays(3) # {}
    /\ \E s \in 0 .. 2 : ValidWays(s) # {}
    /\ ValidWays(4) = {} /\ ValidWays(5) = {}

\* --------------------------------------------------------------------- C15
\* The entries of the sweep that give a row: cacheLineNum > 0 and a readable
\* trace file.
GivesRow(e) == CacheLineNum(e[1], e[2], e[3]) > 0 /\ files[e[4]].readable
SameConfiguration(row, e) ==
    /\ row.traceFile = e[4]
    /\ row.cacheSizeKB = e[1] \div 1024
    /\ row.blockSize = e[2]
    /\ row.associativity = e[3]

\* C15: once the CSV file is open, main attempts the 5 + 5*6 + 5*8 + 5*7
\* configurations of its sweeps one after another in program order, whatever
\* the outcome of each: an attempt with cacheLineNum = 0 or an unreadable
\* trace writes one error message and no row, any other attempt appends
\* exactly one row, for its own configuration; main leaves the sweep only
\* when all were attempted, and it always gets there.
C15_SweepCompletes ==
    /\ [](Len(Sweep) = 5 + 5 * 6 + 5 * 8 + 5 * 7)
    /\ [][pc = "main" =>
            \/ /\ calls' = calls + 1
               /\ pc' = "main"
               /\ << cacheSize', blockSize', setAssociativity', traceFile' >>
                     = Sweep[calls + 1]
               /\ IF GivesRow(Sweep[calls + 1])
                  THEN /\ Len(csv') = Len(csv) + 1
                       /\ SubSeq(csv', 1, Len(csv)) = csv
                       /\ SameConfiguration(csv'[Len(csv')], Sweep[calls + 1])
                       /\ cerr' = cerr
                  ELSE /\ csv' = csv
                       /\ Len(cerr') = Len(cerr) + 1
            \/ /\ calls = Len(Sweep) /\ calls' = calls
               /\ pc' = "done" /\ csv' = csv /\ cerr' = cerr]_vars
    /\ [](pc = "done" =>
            /\ calls = Len(Sweep)
            /\ Len(csv) = Len(SelectSeq(Sweep, GivesRow))
            /\ \A k \in 1 .. Len(csv) :
                  SameConfiguration(csv[k], SelectSeq(Sweep, GivesRow)[k]))
    /\ (pc = "main") ~> (pc = "done" /\ calls = Len(Sweep))

\* main returned 0 after a sweep in which some trace files were unreadable
\* and others were replayed, one of them with records.
C15_Witness ==
    /\ pc = "done" /\ calls = 110
    /\ Len(cerr) = 44 /\ Len(csv) = 66
    /\ ~csv[1].hitRate.nan
    /\ \E k \in 1 .. Len(csv) : csv[k].hitRate.nan

====
